---------------------------- MODULE Spec2Model ----------------------------
(***************************************************************************)
(* Model of mbed_PWMServoDriver (src/mbed_PWMServoDriver.cpp), the mbed    *)
(* port of the PCA9685 16-channel PWM driver.                              *)
(*                                                                         *)
(* The driver is synchronous and single threaded, so every public method   *)
(* is one action.  A method is written as an operator on a "machine" record*)
(* m that is threaded through the statements of the method in source order:*)
(*   m.regs   the register file of the device behind the I2C bus           *)
(*   m.osc    the member _oscillator_freq                                  *)
(*   m.dev    the member _i2caddr                                          *)
(*   m.bus    the events of the call so far, in order: bus transactions,   *)
(*            blocking delays and printf output                            *)
(*   m.n      the number of bus transactions issued so far                 *)
(*   m.acks   the environment's answer to the k-th transaction of the call *)
(*   m.junk   the value an uninitialised / unanswered read leaves behind   *)
(*   m.rc     the return value of the last I2C::write / I2C::read          *)
(*   m.ret    the return value of the last read8 / of the method           *)
(*   m.ptr    the register the last acknowledged write addressed           *)
(*   m.sat    whether a double too large for uint16_t converts to 65535    *)
(***************************************************************************)
EXTENDS Integers, Sequences, FiniteSets, TLC

VARIABLES
    _i2caddr,          \* uint8_t _i2caddr
    _oscillator_freq,  \* uint32_t _oscillator_freq
    regs,              \* registers of the device (transport that echoes writes)
    calls              \* the calls made so far, each with its bus events

vars == <<_i2caddr, _oscillator_freq, regs, calls>>

----------------------------------------------------------------------------
(* Register map and bit masks (mbed_PWMServoDriver.h) *)

PCA9685_MODE1 == 0
PCA9685_MODE2 == 1
PCA9685_LED0_ON_L == 6
PCA9685_PRESCALE == 254

MODE1_SLEEP == 16
MODE1_AI == 32
MODE1_EXTCLK == 64
MODE1_RESTART == 128
MODE2_OUTDRV == 4

FREQUENCY_OSCILLATOR == 25000000
PCA9685_PRESCALE_MIN == 3
PCA9685_PRESCALE_MAX == 255

Bytes == 0..255
Channels == 0..15
RegAddrs == {PCA9685_MODE1, PCA9685_MODE2, PCA9685_PRESCALE}
            \cup (PCA9685_LED0_ON_L .. (PCA9685_LED0_ON_L + 4 * 15 + 3))

----------------------------------------------------------------------------
(* 8-bit arithmetic of the C expressions *)

RECURSIVE Pow2(_)
Pow2(i) == IF i <= 0 THEN 1 ELSE 2 * Pow2(i - 1)

Bit(x, i) == (x \div Pow2(i)) % 2

OrBit(a, b) == IF a + b > 0 THEN 1 ELSE 0
AndBit(a, b) == a * b

\* x | y, x & y and (uint8_t)~x on bytes
BitOr(x, y) ==
    LET W(i) == Pow2(i) * OrBit(Bit(x, i), Bit(y, i))
    IN  W(0) + W(1) + W(2) + W(3) + W(4) + W(5) + W(6) + W(7)
BitAnd(x, y) ==
    LET W(i) == Pow2(i) * AndBit(Bit(x, i), Bit(y, i))
    IN  W(0) + W(1) + W(2) + W(3) + W(4) + W(5) + W(6) + W(7)
BitNot(x) == 255 - x

U8(x) == x % 256

Min(a, b) == IF a < b THEN a ELSE b


----------------------------------------------------------------------------
(* The I2C transport behind _i2c.  I2C::write and I2C::read return 0 when   *)
(* the device acknowledged and non-zero otherwise.  The device keeps the    *)
(* last byte written to each register; a write that is not acknowledged     *)
(* leaves the registers unchanged.                                          *)

Event(kind, dev, bytes, rep, ack, text) ==
    [kind |-> kind, dev |-> dev, bytes |-> bytes, rep |-> rep, ack |-> ack,
     text |-> text]

\* The registers after the data bytes of an acknowledged write have been
\* stored at consecutive addresses starting at bytes[1].
Store(r, bytes) ==
    [a \in DOMAIN r |->
        IF a - bytes[1] + 2 \in 2..Len(bytes) THEN bytes[a - bytes[1] + 2]
        ELSE r[a]]

\* _i2c->write(_i2caddr, bytes, Len(bytes), rep)
I2C_write(m, bytes, rep) ==
    LET ack == m.acks[m.n + 1] IN
    [m EXCEPT !.n = @ + 1,
              !.rc = IF ack THEN 0 ELSE 1,
              !.regs = IF ack /\ Len(bytes) > 1 THEN Store(@, bytes) ELSE @,
              !.ptr = IF ack THEN bytes[1] ELSE -1,
              !.bus = Append(@, Event("write", m.dev, bytes, rep, ack, ""))]

\* _i2c->read(_i2caddr, &data, 1): data is the addressed register when both
\* the address write and the read were acknowledged; otherwise the local
\* `char data` holds whatever it held (it is not initialised).
I2C_read(m) ==
    LET ack == m.acks[m.n + 1]
        data == IF ack /\ m.ptr \in DOMAIN m.regs THEN m.regs[m.ptr] ELSE m.junk
    IN
    [m EXCEPT !.n = @ + 1,
              !.rc = IF ack THEN 0 ELSE 1,
              !.ret = data,
              !.bus = Append(@, Event("read", m.dev, <<data>>, FALSE, ack, ""))]

printf(m, text) ==
    [m EXCEPT !.bus = Append(@, Event("printf", m.dev, <<>>, FALSE, TRUE, text))]

\* ThisThread::sleep_for(chrono::milliseconds(ms))
sleep_for(m, ms) ==
    [m EXCEPT !.bus = Append(@, Event("delay", m.dev, <<ms>>, FALSE, TRUE, ""))]

----------------------------------------------------------------------------
(* Low level I2C interface *)

\* Mutant of read8: it returns when the address write is not acknowledged,
\* without issuing the read.
read8_StopsOnNack(m, addr) ==
    LET m1 == I2C_write(m, <<addr>>, TRUE)
    IN  IF m1.rc # 0
        THEN printf(m1, "I2C ERR: no ack on write before read.")
        ELSE LET m3 == I2C_read(m1)
             IN  IF m3.rc # 0 THEN printf(m3, "I2C ERR: no ack on read") ELSE m3

read8(m, addr) ==
    LET m1 == I2C_write(m, <<addr>>, TRUE)
        m2 == IF m1.rc # 0
              THEN printf(m1, "I2C ERR: no ack on write before read.")
              ELSE m1
        m3 == I2C_read(m2)
    IN  IF m3.rc # 0 THEN printf(m3, "I2C ERR: no ack on read") ELSE m3

\* Mutant of write8: a write that is not acknowledged also drops the cached
\* oscillator frequency.
write8_ForgetsOscOnNack(m, addr, d) ==
    LET m1 == I2C_write(m, <<addr, d>>, FALSE)
    IN  IF m1.rc # 0
        THEN [printf(m1, "I2C ERR: No ACK on i2c write!") EXCEPT !.osc = 0]
        ELSE m1

write8(m, addr, d) ==
    LET m1 == I2C_write(m, <<addr, d>>, FALSE)
    IN  IF m1.rc # 0 THEN printf(m1, "I2C ERR: No ACK on i2c write!") ELSE m1

----------------------------------------------------------------------------
(* The prescale computation of setPWMFreq (lines 143-153).                  *)
(*                                                                          *)
(* freq is a float; the model takes whole numbers of Hz.  The C expression  *)
(*     float prescaleval = ((_oscillator_freq / (freq * 4095.0)) + 0.5) - 1 *)
(* is evaluated in double and then narrowed to float.  Its exact value is   *)
(* the rational q + r/D below; the doubles carry 29 more bits than the      *)
(* float and are taken as exact, the narrowing to the 24-bit significand of *)
(* a float (round to nearest, ties to even) is modelled.  A float is kept   *)
(* as [whole, frac]: its integer part, and whether a fraction remains.      *)

ClampFreq(freq) ==
    LET f1 == IF freq < 1 THEN 1 ELSE freq
    IN  IF f1 > 3500 THEN 3500 ELSE f1

\* The number of fraction bits of a float whose integer part is q.
FracBits(q) ==
    IF q < 2 THEN 23 ELSE IF q < 4 THEN 22 ELSE IF q < 8 THEN 21
    ELSE IF q < 16 THEN 20 ELSE IF q < 32 THEN 19 ELSE IF q < 64 THEN 18
    ELSE IF q < 128 THEN 17 ELSE IF q < 256 THEN 16 ELSE 15

\* (float)(q + r/D) for 0 <= r < D: the nearest multiple of 2^-FracBits(q).
\* It is q + 1 when r/D is within half a unit in the last place of 1, and q
\* when r/D is within half a unit of 0 (ties go to the even significand).
ToFloat(q, r, D) ==
    LET half == D \div Pow2(FracBits(q) + 1)
    IN  IF D - r <= half THEN [whole |-> q + 1, frac |-> 0]
        ELSE IF r <= half THEN [whole |-> q, frac |-> 0]
        ELSE [whole |-> q, frac |-> 1]

FloatOf(k) == [whole |-> k, frac |-> 0]
FloatLess(x, k) == x.whole < k
FloatGreater(x, k) == x.whole > k \/ (x.whole = k /\ x.frac = 1)

\* ((osc / (freq * 4095.0)) + 0.5) - 1 as a float, freq already clamped
PrescaleVal(osc, freq) ==
    LET D1 == freq * 4095
        q1 == osc \div D1
        t  == 2 * (osc % D1) + D1       \* (osc/D1 - q1) + 0.5, in units 1/(2*D1)
        D  == 2 * D1
    IN  IF t >= D THEN ToFloat(q1, t - D, D) ELSE ToFloat(q1 - 1, t, D)

ClampPrescale(pv) ==
    LET p1 == IF FloatLess(pv, PCA9685_PRESCALE_MIN)
              THEN FloatOf(PCA9685_PRESCALE_MIN) ELSE pv
    IN  IF FloatGreater(p1, PCA9685_PRESCALE_MAX)
        THEN FloatOf(PCA9685_PRESCALE_MAX) ELSE p1

\* uint8_t prescale = (uint8_t)prescaleval
FloatToU8(pv) == U8(pv.whole)

Prescale(osc, freq) == FloatToU8(ClampPrescale(PrescaleVal(osc, ClampFreq(freq))))

----------------------------------------------------------------------------
(* The methods, statement by statement *)

\* Mutant of reset: the 10 ms wait is taken before the write.
reset_WaitsFirst(m) ==
    write8(sleep_for(m, 10), PCA9685_MODE1, MODE1_RESTART)

reset(m) ==
    sleep_for(write8(m, PCA9685_MODE1, MODE1_RESTART), 10)

sleep(m) ==
    LET m1 == read8(m, PCA9685_MODE1)
        awake == m1.ret
        sleepmode == BitOr(awake, MODE1_SLEEP)
        m2 == write8(m1, PCA9685_MODE1, sleepmode)
    IN  sleep_for(m2, 5)

\* Mutant of wakeup: the RESTART bit is cleared together with SLEEP.
wakeup_ClearsRestart(m) ==
    LET m1 == read8(m, PCA9685_MODE1)
        sleepmode == m1.ret
        wake == BitAnd(sleepmode, BitNot(MODE1_SLEEP + MODE1_RESTART))
    IN  write8(m1, PCA9685_MODE1, wake)

wakeup(m) ==
    LET m1 == read8(m, PCA9685_MODE1)
        sleepmode == m1.ret
        wake == BitAnd(sleepmode, BitNot(MODE1_SLEEP))
    IN  write8(m1, PCA9685_MODE1, wake)

\* Mutant of SleepMode: the byte read is dropped, only SLEEP is written.
SleepMode_OnlySleep(oldmode) == MODE1_SLEEP

\* newmode = (oldmode & ~MODE1_RESTART) | MODE1_SLEEP
SleepMode(oldmode) == BitOr(BitAnd(oldmode, BitNot(MODE1_RESTART)), MODE1_SLEEP)

\* Mutant of ExtClkFinalMode: the SLEEP bit is left set.
ExtClkFinalMode_KeepsSleep(newmode) ==
    BitOr(BitOr(newmode, MODE1_RESTART), MODE1_AI)

\* (newmode & ~MODE1_SLEEP) | MODE1_RESTART | MODE1_AI
ExtClkFinalMode(newmode) ==
    BitOr(BitOr(BitAnd(newmode, BitNot(MODE1_SLEEP)), MODE1_RESTART), MODE1_AI)

setExtClk(m, prescale) ==
    LET m1 == read8(m, PCA9685_MODE1)
        oldmode == m1.ret
        newmode == SleepMode(oldmode)
        m2 == write8(m1, PCA9685_MODE1, newmode)
        newmode2 == BitOr(newmode, MODE1_EXTCLK)
        m3 == write8(m2, PCA9685_MODE1, newmode2)
        m4 == write8(m3, PCA9685_PRESCALE, prescale)
        m5 == sleep_for(m4, 5)
    IN  write8(m5, PCA9685_MODE1, ExtClkFinalMode(newmode2))

\* Mutant of PWMFreqFinalMode: auto-increment is not turned on.
PWMFreqFinalMode_NoAI(oldmode) == BitOr(oldmode, MODE1_RESTART)

\* Mutant of PWMFreqFinalMode: the final byte is built from the sleep mode
\* byte, as setExtClk builds it, instead of from the byte read.
PWMFreqFinalMode_FromSleepMode(oldmode) ==
    BitOr(BitOr(SleepMode(oldmode), MODE1_RESTART), MODE1_AI)

\* oldmode | MODE1_RESTART | MODE1_AI
PWMFreqFinalMode(oldmode) == BitOr(BitOr(oldmode, MODE1_RESTART), MODE1_AI)

setPWMFreq(m, freq) ==
    LET prescale == Prescale(m.osc, freq)
        m1 == read8(m, PCA9685_MODE1)
        oldmode == m1.ret
        newmode == SleepMode(oldmode)
        m2 == write8(m1, PCA9685_MODE1, newmode)
        m3 == write8(m2, PCA9685_PRESCALE, prescale)
        m4 == write8(m3, PCA9685_MODE1, oldmode)
        m5 == sleep_for(m4, 5)
    IN  write8(m5, PCA9685_MODE1, PWMFreqFinalMode(oldmode))

OutputMode(oldmode, totempole) ==
    IF totempole THEN BitOr(oldmode, MODE2_OUTDRV)
    ELSE BitAnd(oldmode, BitNot(MODE2_OUTDRV))

setOutputMode(m, totempole) ==
    LET m1 == read8(m, PCA9685_MODE2)
        oldmode == m1.ret
    IN  write8(m1, PCA9685_MODE2, OutputMode(oldmode, totempole))

\* Mutant of readPrescale: it reads MODE1.
readPrescale_ReadsMode1(m) == read8(m, PCA9685_MODE1)

readPrescale(m) == read8(m, PCA9685_PRESCALE)

\* Mutant of getPWM: it reads the low byte of the OFF value.
getPWM_ReadsOff(m, num) == read8(m, U8(PCA9685_LED0_ON_L + 4 * num + 2))

getPWM(m, num) == read8(m, U8(PCA9685_LED0_ON_L + 4 * num))

\* Mutant of PWMCommand: the channels' registers are taken 3 apart.
PWMCommand_Stride3(num, on, off) ==
    <<U8(PCA9685_LED0_ON_L + 3 * num), U8(on), U8(on \div 256), U8(off),
      U8(off \div 256)>>

\* Mutant of PWMCommand: the high byte of each value is sent before the low.
PWMCommand_HighFirst(num, on, off) ==
    <<U8(PCA9685_LED0_ON_L + 4 * num), U8(on \div 256), U8(on), U8(off \div 256),
      U8(off)>>

\* char cmd[5]
PWMCommand(num, on, off) ==
    <<U8(PCA9685_LED0_ON_L + 4 * num), U8(on), U8(on \div 256), U8(off),
      U8(off \div 256)>>

\* the condition of `if (_i2c->write(_i2caddr, cmd, 5),false)`: the comma
\* operator discards the return value of the write
PWMWriteFailed(rc) == FALSE

setPWM(m, num, on, off) ==
    LET m1 == I2C_write(m, PWMCommand(num, on, off), FALSE)
    IN  IF PWMWriteFailed(m1.rc)
        THEN printf(m1, "setPWM ERR: No ACK on i2c write pin")
        ELSE m1

\* Mutant of PinTicks: val is not clamped to 4095.
PinTicks_NoClamp(val, invert) ==
    IF invert
    THEN IF val = 0 THEN <<4095, 0>>
         ELSE IF val = 4095 THEN <<0, 4095>>
         ELSE <<0, (4095 - val) % 65536>>
    ELSE IF val = 4095 THEN <<4095, 0>>
         ELSE IF val = 0 THEN <<0, 4095>>
         ELSE <<0, val>>

\* the <<on, off>> pair setPin passes to setPWM
PinTicks(val0, invert) ==
    LET val == Min(val0, 4095) IN
    IF invert
    THEN IF val = 0 THEN <<4095, 0>>
         ELSE IF val = 4095 THEN <<0, 4095>>
         ELSE <<0, 4095 - val>>
    ELSE IF val = 4095 THEN <<4095, 0>>
         ELSE IF val = 0 THEN <<0, 4095>>
         ELSE <<0, val>>

setPin(m, num, val, invert) ==
    LET t == PinTicks(val, invert) IN setPWM(m, num, t[1], t[2])

\* The double arithmetic of writeMicroseconds (lines 298-329).  A double has
\* a 53-bit significand; the model keeps one as the pair [hi, lo] of value
\* hi * 2^27 + lo, and a double as [sig, exp] of value sig * 2^exp with
\* 2^52 <= sig < 2^53.  The operands here stay far from the ends of the
\* exponent range.
BigHalf == Pow2(27)

Big(n) == [hi |-> n \div BigHalf, lo |-> n % BigHalf]

BigTwice(a) ==
    [hi |-> 2 * a.hi + (2 * a.lo) \div BigHalf, lo |-> (2 * a.lo) % BigHalf]

BigSucc(a) ==
    IF a.lo + 1 = BigHalf THEN [hi |-> a.hi + 1, lo |-> 0]
    ELSE [hi |-> a.hi, lo |-> a.lo + 1]

BigLess(a, b) == a.hi < b.hi \/ (a.hi = b.hi /\ a.lo < b.lo)

\* a - b for a >= b
BigMinus(a, b) ==
    IF a.lo >= b.lo THEN [hi |-> a.hi - b.hi, lo |-> a.lo - b.lo]
    ELSE [hi |-> a.hi - b.hi - 1, lo |-> a.lo + BigHalf - b.lo]

\* n / d = (n' / d') * 2^e with d' <= n' < 2 d'
RECURSIVE DoubleNormalise(_, _, _)
DoubleNormalise(n, d, e) ==
    IF BigLess(n, d) THEN DoubleNormalise(BigTwice(n), d, e - 1)
    ELSE IF ~BigLess(n, BigTwice(d)) THEN DoubleNormalise(n, BigTwice(d), e + 1)
    ELSE [n |-> n, d |-> d, e |-> e]

\* The bits of the quotient after those of q, r being the remainder so far,
\* until the significand is full.
RECURSIVE DoubleDigits(_, _, _)
DoubleDigits(r, d, q) ==
    IF q.hi >= BigHalf \div 4 THEN [q |-> q, r |-> r]
    ELSE LET r2 == BigTwice(r)
             q2 == BigTwice(q)
         IN  IF BigLess(r2, d) THEN DoubleDigits(r2, d, q2)
             ELSE DoubleDigits(BigMinus(r2, d), d, BigSucc(q2))

\* The double nearest to n / d (ties to the even significand), n and d > 0.
DoubleDiv(n, d) ==
    LET s == DoubleNormalise(n, d, 0)
        x == DoubleDigits(BigMinus(s.n, s.d), s.d, Big(1))
        r2 == BigTwice(x.r)
        up == BigLess(s.d, r2) \/ (r2 = s.d /\ x.q.lo % 2 = 1)
        q == IF up THEN BigSucc(x.q) ELSE x.q
    IN  IF q.hi = BigHalf \div 2
        THEN [sig |-> [hi |-> BigHalf \div 4, lo |-> 0], exp |-> s.e - 51]
        ELSE [sig |-> q, exp |-> s.e - 52]

\* a \div 2^k
BigShiftRight(a, k) ==
    IF k <= 0 THEN a
    ELSE IF k < 27
    THEN [hi |-> a.hi \div Pow2(k),
          lo |-> (a.hi % Pow2(k)) * Pow2(27 - k) + a.lo \div Pow2(k)]
    ELSE IF k < 54 THEN [hi |-> 0, lo |-> a.hi \div Pow2(k - 27)]
    ELSE Big(0)

\* pulselength = 1000000 * prescale / _oscillator_freq, for osc in 1 .. 2^30-1
PulseLength(prescale, osc) == DoubleDiv(Big(1000000 * prescale), Big(osc))

\* pulse /= pulselength, for Microseconds > 0
Pulse(Microseconds, pulselength) ==
    LET x == DoubleDiv(Big(Microseconds), pulselength.sig)
    IN  [sig |-> x.sig, exp |-> x.exp - pulselength.exp]

\* The uint16_t that setPWM receives for the double pulse (line 329).  The
\* conversion truncates; a pulse of 65536 or more does not fit and the
\* conversion is undefined: the build saturates or keeps the low 16 bits of
\* the integer it converted to (m.sat).  A zero _oscillator_freq makes
\* pulselength infinite and pulse 0; so does Microseconds = 0.
PulseTicks(m, us, prescale) ==
    IF m.osc = 0 \/ us = 0 THEN 0
    ELSE LET pulse == Pulse(us, PulseLength(prescale, m.osc))
             t == BigShiftRight(pulse.sig, 0 - pulse.exp)
         IN  IF pulse.exp < 0 /\ t.hi = 0 /\ t.lo <= 65535 THEN t.lo
             ELSE IF m.sat THEN 65535
             ELSE IF pulse.exp < 0 /\ t.hi < 16 THEN t.lo % 65536
             ELSE 0

writeMicroseconds(m, num, Microseconds) ==
    LET m1 == readPrescale(m)
        prescale == m1.ret + 1
    IN  setPWM(m1, num, 0, PulseTicks(m1, Microseconds, prescale))

getOscillatorFrequency(m) == [m EXCEPT !.ret = m.osc]

setOscillatorFrequency(m, freq) == [m EXCEPT !.osc = freq]

begin(m, prescale) ==
    LET m1 == reset(m)
        m2 == IF prescale # 0 THEN setExtClk(m1, prescale)
              ELSE setPWMFreq(m1, 1000)
    IN  setOscillatorFrequency(m2, FREQUENCY_OSCILLATOR)

----------------------------------------------------------------------------
(* Calls.  A call runs a method on the current state with the environment's *)
(* answers (acks, junk, sat) and records its events.                        *)

MachineAt(r, osc, dev, acks, junk, sat) ==
    [regs |-> r, osc |-> osc, dev |-> dev,
     bus |-> <<>>, n |-> 0, rc |-> 0, ret |-> 0, ptr |-> -1,
     acks |-> acks, junk |-> junk, sat |-> sat]

Machine(acks, junk, sat) ==
    MachineAt(regs, _oscillator_freq, _i2caddr, acks, junk, sat)

\* Each record of calls keeps the call's arguments (a bool as 0 or 1), its
\* return value, its events, and the state it started from.
Commit(op, args, m) ==
    /\ regs' = m.regs
    /\ _oscillator_freq' = m.osc
    /\ calls' = Append(calls, [op |-> op, args |-> args, ret |-> m.ret,
                               bus |-> m.bus, osc0 |-> _oscillator_freq,
                               regs0 |-> regs])
    /\ UNCHANGED _i2caddr

\* The method op applied to args, as the Call actions apply it.
Run(m, op, args) ==
    CASE op = "begin" -> begin(m, args[1])
      [] op = "reset" -> reset(m)
      [] op = "sleep" -> sleep(m)
      [] op = "wakeup" -> wakeup(m)
      [] op = "setExtClk" -> setExtClk(m, args[1])
      [] op = "setPWMFreq" -> setPWMFreq(m, args[1])
      [] op = "setOutputMode" -> setOutputMode(m, args[1] = 1)
      [] op = "readPrescale" -> readPrescale(m)
      [] op = "getPWM" -> getPWM(m, args[1])
      [] op = "setPWM" -> setPWM(m, args[1], args[2], args[3])
      [] op = "setPin" -> setPin(m, args[1], args[2], args[3] = 1)
      [] op = "writeMicroseconds" -> writeMicroseconds(m, args[1], args[2])
      [] op = "getOscillatorFrequency" -> getOscillatorFrequency(m)
      [] op = "setOscillatorFrequency" -> setOscillatorFrequency(m, args[1])

\* Every acknowledgment pattern of k transactions, and the two patterns of
\* a device that answers every transaction or none.
AllAcks(k) == [1..k -> BOOLEAN]
Uniform(k) == {[i \in 1..k |-> TRUE], [i \in 1..k |-> FALSE]}

B2N(b) == IF b THEN 1 ELSE 0

CallBegin(prescale, a, j) ==
    Commit("begin", <<prescale>>, begin(Machine(a, j, FALSE), prescale))

CallReset(a) ==
    Commit("reset", <<>>, reset(Machine(a, 0, FALSE)))

CallSleep(a, j) ==
    Commit("sleep", <<>>, sleep(Machine(a, j, FALSE)))

CallWakeup(a, j) ==
    Commit("wakeup", <<>>, wakeup(Machine(a, j, FALSE)))

CallSetExtClk(prescale, a, j) ==
    Commit("setExtClk", <<prescale>>, setExtClk(Machine(a, j, FALSE), prescale))

CallSetPWMFreq(freq, a, j) ==
    Commit("setPWMFreq", <<freq>>, setPWMFreq(Machine(a, j, FALSE), freq))

CallSetOutputMode(totempole, a, j) ==
    Commit("setOutputMode", <<B2N(totempole)>>,
           setOutputMode(Machine(a, j, FALSE), totempole))

CallReadPrescale(a, j) ==
    Commit("readPrescale", <<>>, readPrescale(Machine(a, j, FALSE)))

CallGetPWM(num, a, j) ==
    Commit("getPWM", <<num>>, getPWM(Machine(a, j, FALSE), num))

CallSetPWM(num, on, off, a) ==
    Commit("setPWM", <<num, on, off>>, setPWM(Machine(a, 0, FALSE), num, on, off))

CallSetPin(num, val, invert, a) ==
    Commit("setPin", <<num, val, B2N(invert)>>,
           setPin(Machine(a, 0, FALSE), num, val, invert))

CallWriteMicroseconds(num, us, a, j, sat) ==
    Commit("writeMicroseconds", <<num, us>>,
           writeMicroseconds(Machine(a, j, sat), num, us))

CallGetOscillatorFrequency ==
    Commit("getOscillatorFrequency", <<>>,
           getOscillatorFrequency(Machine(<<>>, 0, FALSE)))

CallSetOscillatorFrequency(freq) ==
    Commit("setOscillatorFrequency", <<freq>>,
           setOscillatorFrequency(Machine(<<>>, 0, FALSE), freq))

----------------------------------------------------------------------------
(* Construction.  The constructor (lines 56-60) initialises _i2caddr and    *)
(* _i2c only: _oscillator_freq is assigned for the first time by            *)
(* setOscillatorFrequency (begin calls it last), so until then it holds an  *)
(* indeterminate value.  The device's registers are whatever the device     *)
(* holds when the driver is attached to it.                                 *)

InitWith(addrs, oscs, mode1s, mode2s, prescales) ==
    /\ \E addr \in addrs : _i2caddr = U8(addr * 2)
    /\ _oscillator_freq \in oscs
    /\ \E m1 \in mode1s, m2 \in mode2s, p \in prescales :
          regs = [a \in RegAddrs |->
                    IF a = PCA9685_MODE1 THEN m1
                    ELSE IF a = PCA9685_MODE2 THEN m2
                    ELSE IF a = PCA9685_PRESCALE THEN p
                    ELSE 0]
    /\ calls = <<>>

----------------------------------------------------------------------------
(* Spec: the life of a driver.  At most MaxCalls calls on a freshly         *)
(* constructed driver; the device answers all the transactions of a call or *)
(* none of them (SpecNack takes every pattern).                             *)

MaxCalls == 2

I2CAddrs == {64}
IndeterminateOsc == {0, FREQUENCY_OSCILLATOR}
JunkBytes == {165}
Mode1Start == {17}

Init == InitWith(I2CAddrs, IndeterminateOsc, Mode1Start, {4}, {30})

Begin ==
    /\ Len(calls) < MaxCalls
    /\ \E p \in {0, 200}, a \in Uniform(7), j \in JunkBytes : CallBegin(p, a, j)

Reset ==
    /\ Len(calls) < MaxCalls
    /\ \E a \in Uniform(1) : CallReset(a)

Sleep ==
    /\ Len(calls) < MaxCalls
    /\ \E a \in Uniform(3), j \in JunkBytes : CallSleep(a, j)

Wakeup ==
    /\ Len(calls) < MaxCalls
    /\ \E a \in Uniform(3), j \in JunkBytes : CallWakeup(a, j)

SetExtClk ==
    /\ Len(calls) < MaxCalls
    /\ \E p \in {200}, a \in Uniform(6), j \in JunkBytes : CallSetExtClk(p, a, j)

SetPWMFreq ==
    /\ Len(calls) < MaxCalls
    /\ \E f \in {85, 1000}, a \in Uniform(6), j \in JunkBytes :
          CallSetPWMFreq(f, a, j)

SetOutputMode ==
    /\ Len(calls) < MaxCalls
    /\ \E b \in BOOLEAN, a \in Uniform(3), j \in JunkBytes :
          CallSetOutputMode(b, a, j)

ReadPrescale ==
    /\ Len(calls) < MaxCalls
    /\ \E a \in Uniform(2), j \in JunkBytes : CallReadPrescale(a, j)

GetPWM ==
    /\ Len(calls) < MaxCalls
    /\ \E n \in {15}, a \in Uniform(2), j \in JunkBytes : CallGetPWM(n, a, j)

SetPWM ==
    /\ Len(calls) < MaxCalls
    /\ \E n \in {15}, t \in {<<0, 4095>>, <<4095, 0>>, <<256, 2049>>},
          a \in Uniform(1) :
          CallSetPWM(n, t[1], t[2], a)

SetPin ==
    /\ Len(calls) < MaxCalls
    /\ \E n \in {15}, v \in {0, 2048, 5000}, inv \in BOOLEAN, a \in Uniform(1) :
          CallSetPin(n, v, inv, a)

WriteMicroseconds ==
    /\ Len(calls) < MaxCalls
    /\ \E n \in {15}, us \in {7, 1500}, a \in Uniform(3), j \in JunkBytes,
          sat \in BOOLEAN :
          CallWriteMicroseconds(n, us, a, j, sat)

GetOscillatorFrequency ==
    /\ Len(calls) < MaxCalls
    /\ CallGetOscillatorFrequency

SetOscillatorFrequency ==
    /\ Len(calls) < MaxCalls
    /\ \E f \in {30108487} : CallSetOscillatorFrequency(f)

Next ==
    \/ Begin
    \/ Reset
    \/ Sleep
    \/ Wakeup
    \/ SetExtClk
    \/ SetPWMFreq
    \/ SetOutputMode
    \/ ReadPrescale
    \/ GetPWM
    \/ SetPWM
    \/ SetPin
    \/ WriteMicroseconds
    \/ GetOscillatorFrequency
    \/ SetOscillatorFrequency

Spec == Init /\ [][Next]_vars

----------------------------------------------------------------------------
(* SpecMode: one call of a method that writes a mode register, on a device  *)
(* whose MODE1 (or MODE2) register holds any byte.                          *)

PrescaleArgs == {0, 1, 3, 30, 121, 200, 254, 255}
Freqs == {0, 85, 1000, 4000}

InitMode ==
    \/ InitWith(I2CAddrs, {FREQUENCY_OSCILLATOR}, Bytes, {4}, {30})
    \/ InitWith(I2CAddrs, {FREQUENCY_OSCILLATOR}, Mode1Start, Bytes, {30})

ModeSleep ==
    /\ calls = <<>>
    /\ \E a \in Uniform(3), j \in JunkBytes : CallSleep(a, j)

ModeWakeup ==
    /\ calls = <<>>
    /\ \E a \in Uniform(3), j \in JunkBytes : CallWakeup(a, j)

\* every prescale on a device that answers; some on one that does not
ModeSetExtClk ==
    /\ calls = <<>>
    /\ \E x \in (Bytes \X {[i \in 1..6 |-> TRUE]}) \cup (PrescaleArgs \X Uniform(6)),
          j \in JunkBytes :
          CallSetExtClk(x[1], x[2], j)

ModeSetPWMFreq ==
    /\ calls = <<>>
    /\ \E f \in Freqs, a \in Uniform(6), j \in JunkBytes : CallSetPWMFreq(f, a, j)

ModeSetOutputMode ==
    /\ calls = <<>>
    /\ \E b \in BOOLEAN, a \in Uniform(3), j \in JunkBytes :
          CallSetOutputMode(b, a, j)

NextMode ==
    \/ ModeSleep
    \/ ModeWakeup
    \/ ModeSetExtClk
    \/ ModeSetPWMFreq
    \/ ModeSetOutputMode

SpecMode == InitMode /\ [][NextMode]_vars

----------------------------------------------------------------------------
(* SpecBit: sleep, wakeup or setOutputMode on a device whose MODE1 (or      *)
(* MODE2) register holds any byte, and wakeup after sleep.                  *)

BitSleep ==
    /\ calls = <<>>
    /\ \E a \in Uniform(3), j \in JunkBytes : CallSleep(a, j)

BitWakeup ==
    /\ calls = <<>> \/ (Len(calls) = 1 /\ calls[1].op = "sleep")
    /\ \E a \in Uniform(3), j \in JunkBytes : CallWakeup(a, j)

BitSetOutputMode ==
    /\ calls = <<>>
    /\ \E b \in BOOLEAN, a \in Uniform(3), j \in JunkBytes :
          CallSetOutputMode(b, a, j)

NextBit ==
    \/ BitSleep
    \/ BitWakeup
    \/ BitSetOutputMode

SpecBit == InitMode /\ [][NextBit]_vars

----------------------------------------------------------------------------
(* SpecNack: one call of a bus-facing method under every pattern of          *)
(* acknowledged and unacknowledged transactions.                             *)

NackBegin ==
    /\ calls = <<>>
    /\ \E p \in {0, 200}, a \in AllAcks(7), j \in JunkBytes : CallBegin(p, a, j)

NackReset ==
    /\ calls = <<>>
    /\ \E a \in AllAcks(1) : CallReset(a)

NackSleep ==
    /\ calls = <<>>
    /\ \E a \in AllAcks(3), j \in JunkBytes : CallSleep(a, j)

NackWakeup ==
    /\ calls = <<>>
    /\ \E a \in AllAcks(3), j \in JunkBytes : CallWakeup(a, j)

NackSetExtClk ==
    /\ calls = <<>>
    /\ \E p \in {200}, a \in AllAcks(6), j \in JunkBytes : CallSetExtClk(p, a, j)

NackSetPWMFreq ==
    /\ calls = <<>>
    /\ \E f \in {1000}, a \in AllAcks(6), j \in JunkBytes : CallSetPWMFreq(f, a, j)

NackSetOutputMode ==
    /\ calls = <<>>
    /\ \E b \in BOOLEAN, a \in AllAcks(3), j \in JunkBytes :
          CallSetOutputMode(b, a, j)

NackReadPrescale ==
    /\ calls = <<>>
    /\ \E a \in AllAcks(2), j \in JunkBytes : CallReadPrescale(a, j)

NackGetPWM ==
    /\ calls = <<>>
    /\ \E n \in {0, 15}, a \in AllAcks(2), j \in JunkBytes : CallGetPWM(n, a, j)

NackSetPWM ==
    /\ calls = <<>>
    /\ \E n \in {0, 15}, a \in AllAcks(1) : CallSetPWM(n, 256, 2049, a)

NackSetPin ==
    /\ calls = <<>>
    /\ \E n \in {0, 15}, inv \in BOOLEAN, a \in AllAcks(1) :
          CallSetPin(n, 2048, inv, a)

NackWriteMicroseconds ==
    /\ calls = <<>>
    /\ \E n \in {0, 15}, a \in AllAcks(3), j \in JunkBytes :
          CallWriteMicroseconds(n, 1500, a, j, FALSE)

NextNack ==
    \/ NackBegin
    \/ NackReset
    \/ NackSleep
    \/ NackWakeup
    \/ NackSetExtClk
    \/ NackSetPWMFreq
    \/ NackSetOutputMode
    \/ NackReadPrescale
    \/ NackGetPWM
    \/ NackSetPWM
    \/ NackSetPin
    \/ NackWriteMicroseconds

SpecNack == Init /\ [][NextNack]_vars

----------------------------------------------------------------------------
(* SpecPin: one call of setPin or setPWM, over every channel.               *)

PinVals == {0, 1, 2047, 2048, 4094, 4095, 4096, 5000, 32768, 65535}
TickVals == {0, 1, 255, 256, 2048, 4094, 4095}

InitPin == InitWith({64, 112}, {FREQUENCY_OSCILLATOR}, Mode1Start, {4}, {30})

PinSetPin ==
    /\ calls = <<>>
    /\ \E n \in Channels, v \in PinVals, inv \in BOOLEAN, a \in AllAcks(1) :
          CallSetPin(n, v, inv, a)

\* every uint16_t value, on one channel
PinSetPinAnyValue ==
    /\ calls = <<>>
    /\ \E v \in 0..65535, inv \in BOOLEAN : CallSetPin(9, v, inv, <<TRUE>>)

PinSetPWM ==
    /\ calls = <<>>
    /\ \E n \in Channels, on \in TickVals, off \in TickVals, a \in AllAcks(1) :
          CallSetPWM(n, on, off, a)

NextPin ==
    \/ PinSetPin
    \/ PinSetPinAnyValue
    \/ PinSetPWM

SpecPin == InitPin /\ [][NextPin]_vars

----------------------------------------------------------------------------
(* SpecGet: getPWM on any channel, alone or after a setPWM on any channel   *)
(* of a device that answers.                                                *)

GetSetPWM ==
    /\ calls = <<>>
    /\ \E n \in Channels, on \in TickVals, off \in TickVals :
          CallSetPWM(n, on, off, [i \in 1..1 |-> TRUE])

GetGetPWM ==
    /\ Len(calls) <= 1
    /\ \E n \in Channels, a \in Uniform(2), j \in JunkBytes : CallGetPWM(n, a, j)

NextGet ==
    \/ GetSetPWM
    \/ GetGetPWM

SpecGet == InitPin /\ [][NextGet]_vars

----------------------------------------------------------------------------
(* SpecFreq: setPWMFreq and then readPrescale, on a device that             *)
(* acknowledges every transaction and whose MODE1 holds any byte.           *)

OscValues == {0, 1, 12285, 24000000, FREQUENCY_OSCILLATOR, 27000000, 30108487,
              2147483647}
FreqValues == {-5, 0, 1, 2, 24, 40, 50, 60, 85, 173, 200, 865, 1000, 1526,
               1600, 3052, 3500, 3501, 4000}

InitFreq == InitWith(I2CAddrs, OscValues, Bytes, {4}, {30})

FreqSetPWMFreq ==
    /\ calls = <<>>
    /\ \E f \in FreqValues : CallSetPWMFreq(f, [i \in 1..6 |-> TRUE], 0)

FreqReadPrescale ==
    /\ Len(calls) = 1
    /\ CallReadPrescale([i \in 1..2 |-> TRUE], 0)

NextFreq ==
    \/ FreqSetPWMFreq
    \/ FreqReadPrescale

SpecFreq == InitFreq /\ [][NextFreq]_vars

----------------------------------------------------------------------------
(* SpecPulse: one writeMicroseconds on a device whose PRESCALE register     *)
(* holds one of several bytes, with the oscillator frequency set.           *)

PulseOscs == {FREQUENCY_OSCILLATOR, 27000000}
PulsePrescales == {3, 5, 6, 28, 30, 121, 255}
PulseMicros == {0, 1, 7, 14, 29, 58, 100, 500, 1000, 1500, 2000, 2500, 10000,
                20000, 65535}

InitPulse == InitWith(I2CAddrs, PulseOscs, Mode1Start, {4}, PulsePrescales)

PulseWriteMicroseconds ==
    /\ calls = <<>>
    /\ \E n \in Channels, us \in PulseMicros, a \in Uniform(3), j \in JunkBytes,
          sat \in BOOLEAN :
          CallWriteMicroseconds(n, us, a, j, sat)

PulseReadPrescale ==
    /\ Len(calls) = 1
    /\ \E j \in JunkBytes : CallReadPrescale([i \in 1..2 |-> TRUE], j)

NextPulse ==
    \/ PulseWriteMicroseconds
    \/ PulseReadPrescale

SpecPulse == InitPulse /\ [][NextPulse]_vars

----------------------------------------------------------------------------
(* SpecAI: on a device that answers and whose MODE1 register holds any      *)
(* byte, a begin, setExtClk or setPWMFreq followed by other calls, up to    *)
(* MaxCalls calls in all.                                                   *)

Acked(k) == [i \in 1..k |-> TRUE]

InitAI == InitWith(I2CAddrs, {FREQUENCY_OSCILLATOR}, Bytes, {4}, {30})

AIBegin ==
    /\ Len(calls) < MaxCalls
    /\ \E j \in JunkBytes : CallBegin(0, Acked(7), j)

AISetExtClk ==
    /\ Len(calls) < MaxCalls
    /\ \E j \in JunkBytes : CallSetExtClk(200, Acked(6), j)

AISetPWMFreq ==
    /\ Len(calls) < MaxCalls
    /\ \E j \in JunkBytes : CallSetPWMFreq(1000, Acked(6), j)

AIReset ==
    /\ calls # <<>> /\ Len(calls) < MaxCalls
    /\ CallReset(Acked(1))

AISleep ==
    /\ calls # <<>> /\ Len(calls) < MaxCalls
    /\ \E j \in JunkBytes : CallSleep(Acked(3), j)

AIWakeup ==
    /\ calls # <<>> /\ Len(calls) < MaxCalls
    /\ \E j \in JunkBytes : CallWakeup(Acked(3), j)

AISetOutputMode ==
    /\ calls # <<>> /\ Len(calls) < MaxCalls
    /\ \E b \in BOOLEAN, j \in JunkBytes : CallSetOutputMode(b, Acked(3), j)

AIReadPrescale ==
    /\ calls # <<>> /\ Len(calls) < MaxCalls
    /\ \E j \in JunkBytes : CallReadPrescale(Acked(2), j)

AIGetPWM ==
    /\ calls # <<>> /\ Len(calls) < MaxCalls
    /\ \E j \in JunkBytes : CallGetPWM(15, Acked(2), j)

AISetPWM ==
    /\ calls # <<>> /\ Len(calls) < MaxCalls
    /\ CallSetPWM(15, 256, 2049, Acked(1))

AISetPin ==
    /\ calls # <<>> /\ Len(calls) < MaxCalls
    /\ CallSetPin(0, 2048, TRUE, Acked(1))

AIWriteMicroseconds ==
    /\ calls # <<>> /\ Len(calls) < MaxCalls
    /\ \E j \in JunkBytes : CallWriteMicroseconds(15, 1500, Acked(3), j, FALSE)

NextAI ==
    \/ AIBegin
    \/ AISetExtClk
    \/ AISetPWMFreq
    \/ AIReset
    \/ AISleep
    \/ AIWakeup
    \/ AISetOutputMode
    \/ AIReadPrescale
    \/ AIGetPWM
    \/ AISetPWM
    \/ AISetPin
    \/ AIWriteMicroseconds

SpecAI == InitAI /\ [][NextAI]_vars

----------------------------------------------------------------------------
(* SpecBlock: one setPWM, setPin or writeMicroseconds on any channel of a   *)
(* device whose registers all hold something: MODE1 = 161 (RESTART, AI and  *)
(* ALLCALL), MODE2 = 4, PRESCALE = 30 and a non-zero byte in every channel  *)
(* register.                                                                *)

InitBlock ==
    /\ \E addr \in I2CAddrs : _i2caddr = U8(addr * 2)
    /\ _oscillator_freq \in PulseOscs
    /\ regs = [a \in RegAddrs |->
                 IF a = PCA9685_MODE1 THEN 161
                 ELSE IF a = PCA9685_MODE2 THEN 4
                 ELSE IF a = PCA9685_PRESCALE THEN 30
                 ELSE (a % 15) + 1]
    /\ calls = <<>>

BlockSetPWM ==
    /\ calls = <<>>
    /\ \E n \in Channels, on \in TickVals, off \in TickVals, a \in AllAcks(1) :
          CallSetPWM(n, on, off, a)

BlockSetPin ==
    /\ calls = <<>>
    /\ \E n \in Channels, v \in PinVals, inv \in BOOLEAN, a \in AllAcks(1) :
          CallSetPin(n, v, inv, a)

BlockWriteMicroseconds ==
    /\ calls = <<>>
    /\ \E n \in Channels, us \in PulseMicros, a \in AllAcks(3), j \in JunkBytes,
          sat \in BOOLEAN :
          CallWriteMicroseconds(n, us, a, j, sat)

NextBlock ==
    \/ BlockSetPWM
    \/ BlockSetPin
    \/ BlockWriteMicroseconds

SpecBlock == InitBlock /\ [][NextBlock]_vars

----------------------------------------------------------------------------
(* Reading the record of a call *)

IsTx(e) == e.kind \in {"write", "read"}
IsRegWrite(e) == e.kind = "write" /\ Len(e.bytes) >= 2

\* The bus transactions of a call, and its register writes, in order.
Txs(c) == SelectSeq(c.bus, IsTx)
RegWrites(c) == SelectSeq(c.bus, IsRegWrite)

AllAcked(c) == \A k \in 1..Len(c.bus) : c.bus[k].ack

CallsOf(op) == {k \in 1..Len(calls) : calls[k].op = op}

\* A register read as read8 issues it: the 1-byte write of the register
\* address, kept open for the read, then the read of one byte.
IsRead8(c, k, reg) ==
    /\ k + 1 <= Len(Txs(c))
    /\ Txs(c)[k].kind = "write" /\ Txs(c)[k].bytes = <<reg>> /\ Txs(c)[k].rep
    /\ Txs(c)[k + 1].kind = "read" /\ Len(Txs(c)[k + 1].bytes) = 1

\* The byte b is the byte m with the bits of `set` set, the bits of `clear`
\* cleared and every other bit as in m (set and clear are sets of masks).
IsWith(b, m, set, clear) ==
    /\ b \in Bytes
    /\ \A i \in 0..7 :
          Bit(b, i) = IF Pow2(i) \in set THEN 1
                      ELSE IF Pow2(i) \in clear THEN 0
                      ELSE Bit(m, i)

----------------------------------------------------------------------------
(* C1: setExtClk(p) reads MODE1 once (value m) and then issues exactly four *)
(* register writes, in this order: MODE1 = m with RESTART cleared and SLEEP *)
(* set; MODE1 = that with EXTCLK set; PRESCALE = p; MODE1 = the second value*)
(* with SLEEP cleared and RESTART and AI set.                               *)

C1_ExtClkOf(c) ==
    LET tx == Txs(c)
        m == tx[2].bytes[1]
        w == RegWrites(c)
    IN  /\ Len(tx) = 6
        /\ IsRead8(c, 1, PCA9685_MODE1)
        /\ \A k \in 3..6 : IsRegWrite(tx[k])
        /\ Len(w) = 4
        /\ w[1].bytes[1] = PCA9685_MODE1
        /\ IsWith(w[1].bytes[2], m, {MODE1_SLEEP}, {MODE1_RESTART})
        /\ w[2].bytes[1] = PCA9685_MODE1
        /\ IsWith(w[2].bytes[2], w[1].bytes[2], {MODE1_EXTCLK}, {})
        /\ w[3].bytes = <<PCA9685_PRESCALE, c.args[1]>>
        /\ w[4].bytes[1] = PCA9685_MODE1
        /\ IsWith(w[4].bytes[2], w[2].bytes[2], {MODE1_RESTART, MODE1_AI},
                  {MODE1_SLEEP})

C1_ExtClkSequence == \A k \in CallsOf("setExtClk") : C1_ExtClkOf(calls[k])

\* a setExtClk(200) that read a MODE1 with RESTART set and SLEEP, EXTCLK and
\* AI clear
C1_Witness ==
    \E k \in CallsOf("setExtClk") :
        /\ AllAcked(calls[k])
        /\ calls[k].args = <<200>>
        /\ calls[k].regs0[PCA9685_MODE1] = 129
        /\ regs[PCA9685_MODE1] = 225

----------------------------------------------------------------------------
(* C2: setPWMFreq(f) reads MODE1 once (value m) and then issues exactly     *)
(* four register writes, in this order: MODE1 = m with RESTART cleared and  *)
(* SLEEP set; PRESCALE = the computed prescale; MODE1 = m; MODE1 = m with   *)
(* RESTART and AI set.  Every bit set in m is set in the last value written.*)

C2_PWMFreqOf(c) ==
    LET tx == Txs(c)
        m == tx[2].bytes[1]
        w == RegWrites(c)
    IN  /\ Len(tx) = 6
        /\ IsRead8(c, 1, PCA9685_MODE1)
        /\ \A k \in 3..6 : IsRegWrite(tx[k])
        /\ Len(w) = 4
        /\ w[1].bytes[1] = PCA9685_MODE1
        /\ IsWith(w[1].bytes[2], m, {MODE1_SLEEP}, {MODE1_RESTART})
        /\ w[2].bytes = <<PCA9685_PRESCALE, Prescale(c.osc0, c.args[1])>>
        /\ w[3].bytes = <<PCA9685_MODE1, m>>
        /\ w[4].bytes[1] = PCA9685_MODE1
        /\ IsWith(w[4].bytes[2], m, {MODE1_RESTART, MODE1_AI}, {})
        /\ \A i \in 0..7 : Bit(m, i) = 1 => Bit(w[4].bytes[2], i) = 1

C2_PWMFreqSequence == \A k \in CallsOf("setPWMFreq") : C2_PWMFreqOf(calls[k])

\* a setPWMFreq that read a MODE1 with EXTCLK and SLEEP set and left EXTCLK,
\* SLEEP, RESTART and AI set
C2_Witness ==
    \E k \in CallsOf("setPWMFreq") :
        /\ AllAcked(calls[k])
        /\ calls[k].regs0[PCA9685_MODE1] = 80
        /\ regs[PCA9685_MODE1] = 240

----------------------------------------------------------------------------
(* C3: setPin(ch, ticks, invert) makes exactly one setPWM call on ch, with  *)
(* v = min(ticks, 4095) and the pair (on, off): without invert (0,4095) if  *)
(* v = 0, (4095,0) if v = 4095, else (0,v); with invert (4095,0) if v = 0,  *)
(* (0,4095) if v = 4095, else (0,4095-v).                                   *)

C3_Table(ticks, invert) ==
    LET v == IF ticks > 4095 THEN 4095 ELSE ticks IN
    CASE invert = 0 /\ v = 0 -> <<0, 4095>>
      [] invert = 0 /\ v = 4095 -> <<4095, 0>>
      [] invert = 0 /\ v \notin {0, 4095} -> <<0, v>>
      [] invert = 1 /\ v = 0 -> <<4095, 0>>
      [] invert = 1 /\ v = 4095 -> <<0, 4095>>
      [] invert = 1 /\ v \notin {0, 4095} -> <<0, 4095 - v>>

\* the one bus transaction of c is the 5-byte write of setPWM(ch, on, off)
C3_IsSetPWM(c, ch, on, off) ==
    /\ Len(Txs(c)) = 1
    /\ Txs(c)[1].kind = "write"
    /\ Txs(c)[1].bytes = <<PCA9685_LED0_ON_L + 4 * ch, on % 256, on \div 256,
                           off % 256, off \div 256>>

C3_SetPinTable ==
    \A k \in CallsOf("setPin") :
        LET c == calls[k]
            t == C3_Table(c.args[2], c.args[3])
        IN  C3_IsSetPWM(c, c.args[1], t[1], t[2])

\* setPin(15, 5000, true): a value above 4095, inverted
C3_Witness ==
    \E k \in CallsOf("setPin") :
        /\ calls[k].args = <<15, 5000, 1>>
        /\ AllAcked(calls[k])
        /\ regs[PCA9685_LED0_ON_L + 60 + 2] = 255

----------------------------------------------------------------------------
(* C5: setPWM(ch, on, off) with ch in 0..15 and on, off in 0..4095 issues   *)
(* exactly one bus transaction, a write of the 5 bytes [0x06 + 4*ch,        *)
(* on mod 256, on div 256, off mod 256, off div 256] to the device's bus    *)
(* address.                                                                 *)

C5_SetPWMWrite ==
    \A k \in CallsOf("setPWM") :
        LET c == calls[k]
            ch == c.args[1]
            on == c.args[2]
            off == c.args[3]
        IN  (ch \in 0..15 /\ on \in 0..4095 /\ off \in 0..4095) =>
            /\ Len(Txs(c)) = 1
            /\ Txs(c)[1].kind = "write"
            /\ Txs(c)[1].dev = _i2caddr
            /\ ~Txs(c)[1].rep
            /\ Txs(c)[1].bytes = <<6 + 4 * ch, on % 256, on \div 256,
                                   off % 256, off \div 256>>

\* setPWM(15, 256, 4094) on the device at 0x70
C5_Witness ==
    \E k \in CallsOf("setPWM") :
        /\ calls[k].args = <<15, 256, 4094>>
        /\ _i2caddr = 224
        /\ regs[PCA9685_LED0_ON_L + 60 + 1] = 1
        /\ regs[PCA9685_LED0_ON_L + 60 + 2] = 254

----------------------------------------------------------------------------
(* C4: the prescale byte that setPWMFreq(f) writes is                       *)
(* clamp(floor(osc / (f' * 4095) + 0.5) - 1, 3, 255) with f' = clamp(f, 1,  *)
(* 3500), osc being the cached oscillator frequency.                        *)

C4_Exact(osc, f) ==
    LET f1 == IF f < 1 THEN 1 ELSE IF f > 3500 THEN 3500 ELSE f
        d == f1 * 4095
        \* floor(osc/d + 1/2) - 1
        v == (osc \div d) + (IF 2 * (osc % d) >= d THEN 1 ELSE 0) - 1
    IN  IF v < PCA9685_PRESCALE_MIN THEN PCA9685_PRESCALE_MIN
        ELSE IF v > PCA9685_PRESCALE_MAX THEN PCA9685_PRESCALE_MAX
        ELSE v

C4_PrescaleIsExact ==
    \A k \in CallsOf("setPWMFreq") :
        LET c == calls[k] IN
        /\ RegWrites(c)[2].bytes[1] = PCA9685_PRESCALE
        /\ RegWrites(c)[2].bytes[2] = C4_Exact(c.osc0, c.args[1])

----------------------------------------------------------------------------
(* C6: every bus transaction that is not acknowledged is reported: the call *)
(* prints a diagnostic right after it.                                      *)

C6_EveryNackReported ==
    \A k \in 1..Len(calls) :
        LET b == calls[k].bus IN
        \A i \in 1..Len(b) :
            (IsTx(b[i]) /\ ~b[i].ack) =>
                (i < Len(b) /\ b[i + 1].kind = "printf")

----------------------------------------------------------------------------
(* C7: on a device that acknowledges every transaction and returns the last *)
(* byte written to a register, setPWMFreq(f) followed immediately by        *)
(* readPrescale() returns the prescale byte setPWMFreq wrote, which lies in *)
(* [3, 255]; readPrescale writes no register.                               *)

C7_ReadBackPrescale ==
    \A k \in 2..Len(calls) :
        (/\ calls[k].op = "readPrescale" /\ AllAcked(calls[k])
         /\ calls[k - 1].op = "setPWMFreq" /\ AllAcked(calls[k - 1])) =>
            LET w == RegWrites(calls[k - 1])[2].bytes IN
            /\ w[1] = PCA9685_PRESCALE
            /\ w[2] \in PCA9685_PRESCALE_MIN..PCA9685_PRESCALE_MAX
            /\ calls[k].ret = w[2]
            /\ RegWrites(calls[k]) = <<>>
            /\ (k = Len(calls) => regs = calls[k].regs0)

\* setPWMFreq(4000) with a 25 MHz oscillator wrote 3 over the 30 the
\* register held, and readPrescale returned 3
C7_Witness ==
    /\ Len(calls) = 2
    /\ calls[1].op = "setPWMFreq" /\ calls[1].args = <<4000>>
    /\ calls[1].osc0 = FREQUENCY_OSCILLATOR
    /\ calls[1].regs0[PCA9685_PRESCALE] = 30
    /\ calls[2].op = "readPrescale" /\ calls[2].ret = 3

----------------------------------------------------------------------------
(* C8: under every pattern of acknowledgment failures a call issues the     *)
(* same bus transactions (kind, length and register, in order) as the same  *)
(* call from the same state with every transaction acknowledged; a register*)
(* read performs its 1-byte read also when its address write failed.        *)

C8_Shape(bus) ==
    LET tx == SelectSeq(bus, IsTx) IN
    [k \in 1..Len(tx) |->
        <<tx[k].kind, Len(tx[k].bytes),
          IF tx[k].kind = "write" THEN tx[k].bytes[1] ELSE -1>>]

C8_Acknowledged(c) ==
    Run(MachineAt(c.regs0, c.osc0, _i2caddr, [i \in 1..7 |-> TRUE], 0, FALSE),
        c.op, c.args)

C8_NoAbortNoRetry ==
    \A k \in 1..Len(calls) :
        LET c == calls[k] IN
        /\ C8_Shape(c.bus) = C8_Shape(C8_Acknowledged(c).bus)
        /\ \A i \in 1..Len(Txs(c)) :
              (Txs(c)[i].kind = "write" /\ Len(Txs(c)[i].bytes) = 1) =>
                  (i < Len(Txs(c)) /\ Txs(c)[i + 1].kind = "read")

\* begin(0) whose read of MODE1 lost the address write and the last write
\* but got the read acknowledged
C8_Witness ==
    \E k \in CallsOf("begin") :
        LET tx == Txs(calls[k]) IN
        /\ calls[k].args = <<0>>
        /\ Len(tx) = 7
        /\ ~tx[2].ack /\ tx[3].kind = "read" /\ tx[3].ack /\ ~tx[7].ack

----------------------------------------------------------------------------
(* C9: every write to MODE1 or MODE2 is preceded, within the same call, by  *)
(* a read of that register, and the bits the method does not target are     *)
(* written as they were read in that call.                                  *)

ModeRegs == {PCA9685_MODE1, PCA9685_MODE2}

C9_TargetBits(c) ==
    CASE c.op \in {"sleep", "wakeup"} -> {MODE1_SLEEP}
      [] c.op = "setExtClk" \/ (c.op = "begin" /\ c.args[1] # 0) ->
            {MODE1_RESTART, MODE1_SLEEP, MODE1_EXTCLK, MODE1_AI}
      [] c.op = "setPWMFreq" \/ (c.op = "begin" /\ c.args[1] = 0) ->
            {MODE1_RESTART, MODE1_SLEEP, MODE1_AI}
      [] c.op = "setOutputMode" -> {MODE2_OUTDRV}
      [] OTHER -> {}

\* transaction k of c writes a mode register
C9_IsModeWrite(c, k) ==
    IsRegWrite(Txs(c)[k]) /\ Txs(c)[k].bytes[1] \in ModeRegs

\* transaction k of c, a mode register write, is the write of a
\* read-modify-write within c
C9_ReadModifyWrite(c, k) ==
    LET tx == Txs(c) IN
    \E j \in 1..(k - 2) :
        /\ IsRead8(c, j, tx[k].bytes[1])
        /\ \A i \in 0..7 :
              Pow2(i) \notin C9_TargetBits(c) =>
                  Bit(tx[k].bytes[2], i) = Bit(tx[j + 1].bytes[1], i)

\* the write is the one reset() issues (begin starts with reset())
C9_IsResetWrite(c, k) ==
    /\ c.op \in {"reset", "begin"}
    /\ k = 1
    /\ Txs(c)[k].bytes = <<PCA9685_MODE1, MODE1_RESTART>>

\* the claim as stated, for every method
C9_AllModeWritesRMW ==
    \A n \in 1..Len(calls) :
        \A k \in 1..Len(Txs(calls[n])) :
            C9_IsModeWrite(calls[n], k) => C9_ReadModifyWrite(calls[n], k)

\* amended: every mode register write but the one of reset()
C9_ModeWritesRMWButReset ==
    \A n \in 1..Len(calls) :
        \A k \in 1..Len(Txs(calls[n])) :
            C9_IsModeWrite(calls[n], k) =>
                \/ C9_IsResetWrite(calls[n], k)
                \/ C9_ReadModifyWrite(calls[n], k)

\* sleep() after setExtClk(200): it read the 225 that setExtClk left in
\* MODE1 (not the 17 the device started with) and wrote 241
C9_Witness ==
    /\ Len(calls) = 2
    /\ calls[1].op = "setExtClk" /\ AllAcked(calls[1])
    /\ calls[1].regs0[PCA9685_MODE1] = 17
    /\ calls[2].op = "sleep" /\ AllAcked(calls[2])
    /\ regs[PCA9685_MODE1] = 241

----------------------------------------------------------------------------
(* C10: the prescale that begin(0) writes on a freshly constructed driver   *)
(* is the one computed from the default oscillator frequency                *)
(* FREQUENCY_OSCILLATOR and the default PWM frequency 1000.                 *)

C10_BeginUsesDefaultOsc ==
    (/\ Len(calls) >= 1
     /\ calls[1].op = "begin" /\ calls[1].args = <<0>>) =>
        RegWrites(calls[1])[3].bytes =
            <<PCA9685_PRESCALE, Prescale(FREQUENCY_OSCILLATOR, 1000)>>

----------------------------------------------------------------------------
(* C11: after any sequence of operations whose arguments are within their   *)
(* documented ranges (channel in 0..15; on, off and ticks in 0..4095; any   *)
(* 16-bit Microseconds; any prescale and frequency), the on value and the   *)
(* off value written for every channel lie in 0..4095.                      *)

C11_InRange(c) ==
    CASE c.op = "setPWM" ->
            c.args[1] \in Channels /\ c.args[2] \in 0..4095 /\ c.args[3] \in 0..4095
      [] c.op = "setPin" -> c.args[1] \in Channels /\ c.args[2] \in 0..4095
      [] c.op = "writeMicroseconds" ->
            c.args[1] \in Channels /\ c.args[2] \in 0..65535
      [] OTHER -> TRUE

\* the 5-byte write of setPWM, and the on and off values it carries
C11_IsChannelWrite(e) == e.kind = "write" /\ Len(e.bytes) = 5
C11_On(e) == e.bytes[2] + 256 * e.bytes[3]
C11_Off(e) == e.bytes[4] + 256 * e.bytes[5]

C11_TicksInRange ==
    \A n \in 1..Len(calls) :
        C11_InRange(calls[n]) =>
            \A k \in 1..Len(calls[n].bus) :
                C11_IsChannelWrite(calls[n].bus[k]) =>
                    /\ C11_On(calls[n].bus[k]) \in 0..4095
                    /\ C11_Off(calls[n].bus[k]) \in 0..4095

----------------------------------------------------------------------------
(* C12: writeMicroseconds(ch, us) reads the Prescale register once (value   *)
(* P) and calls setPWM(ch, 0, t) exactly once, with                         *)
(* t = floor(us * osc / (1000000 * (P + 1))), osc being the cached          *)
(* oscillator frequency; t is not clamped to 4095.  The formula is taken    *)
(* where the device answers, osc is not zero and t fits the 16 bits of      *)
(* setPWM's parameter.                                                      *)

\* a * b = q * d + r with 0 <= r < d, for a < 2^16, computed bit by bit
\* of a so that no intermediate leaves 32 bits.  MulDiv(a, b, d, i) is the
\* pair for (a \div 2^i) * b.
RECURSIVE MulDiv(_, _, _, _)
MulDiv(a, b, d, i) ==
    IF i > 15 THEN [q |-> 0, r |-> 0]
    ELSE LET h == MulDiv(a, b, d, i + 1)
             r2 == 2 * h.r + Bit(a, i) * (b % d)
         IN  [q |-> 2 * h.q + Bit(a, i) * (b \div d) + (r2 \div d),
              r |-> r2 % d]

C12_Floor(c) ==
    MulDiv(c.args[2], c.osc0, 1000000 * (c.regs0[PCA9685_PRESCALE] + 1), 0).q

C12_PulseIsExactFloor ==
    \A n \in CallsOf("writeMicroseconds") :
        (/\ AllAcked(calls[n])
         /\ calls[n].osc0 > 0
         /\ C12_Floor(calls[n]) <= 65535) =>
            /\ Len(Txs(calls[n])) = 3
            /\ IsRead8(calls[n], 1, PCA9685_PRESCALE)
            /\ Txs(calls[n])[3].kind = "write"
            /\ Txs(calls[n])[3].bytes =
                  PWMCommand(calls[n].args[1], 0, C12_Floor(calls[n]))

----------------------------------------------------------------------------
(* C13: the cached oscillator frequency changes only through                *)
(* setOscillatorFrequency: reset, sleep, wakeup, setExtClk, setPWMFreq,     *)
(* setOutputMode, readPrescale, getPWM, setPWM, setPin and                  *)
(* writeMicroseconds leave it unchanged whether or not their bus            *)
(* transactions are acknowledged; getOscillatorFrequency returns the value  *)
(* last set, and neither accessor issues any bus transaction.               *)

C13_FrameOps ==
    {"reset", "sleep", "wakeup", "setExtClk", "setPWMFreq", "setOutputMode",
     "readPrescale", "getPWM", "setPWM", "setPin", "writeMicroseconds"}

\* _oscillator_freq when call n returned
C13_OscAfter(n) ==
    IF n < Len(calls) THEN calls[n + 1].osc0 ELSE _oscillator_freq

\* call k is the last one before call n that set the oscillator frequency
C13_LastSet(k, n) ==
    /\ k < n
    /\ calls[k].op = "setOscillatorFrequency"
    /\ \A i \in (k + 1)..(n - 1) :
          calls[i].op \notin {"setOscillatorFrequency", "begin"}

C13_OscOnlySetBySetter ==
    \A n \in 1..Len(calls) :
        /\ calls[n].op \in C13_FrameOps => C13_OscAfter(n) = calls[n].osc0
        /\ calls[n].op = "setOscillatorFrequency" =>
              /\ C13_OscAfter(n) = calls[n].args[1]
              /\ calls[n].bus = <<>>
        /\ calls[n].op = "getOscillatorFrequency" =>
              /\ C13_OscAfter(n) = calls[n].osc0
              /\ calls[n].bus = <<>>
              /\ \A k \in 1..Len(calls) :
                    C13_LastSet(k, n) => calls[n].ret = calls[k].args[1]

\* setOscillatorFrequency(30108487) on a driver that held another value,
\* then a setPWMFreq none of whose transactions is acknowledged: the
\* frequency set is still cached
C13_Witness ==
    /\ Len(calls) = 2
    /\ calls[1].op = "setOscillatorFrequency" /\ calls[1].args = <<30108487>>
    /\ calls[1].osc0 # 30108487
    /\ calls[2].op = "setPWMFreq"
    /\ Len(Txs(calls[2])) = 6
    /\ \A k \in 1..6 : ~Txs(calls[2])[k].ack
    /\ _oscillator_freq = 30108487

----------------------------------------------------------------------------
(* C14: each single-bit operation changes exactly its target bit: sleep()   *)
(* writes MODE1 = (value read) with SLEEP set, wakeup() writes MODE1 =      *)
(* (value read) with SLEEP cleared, setOutputMode(true/false) writes        *)
(* MODE2 = (value read) with OUTDRV set/cleared; every other bit of the     *)
(* byte written is the bit read and no other register is written.  On a     *)
(* device that answers, sleep() followed by wakeup() leaves MODE1 as it was *)
(* before sleep() whenever SLEEP was clear then.                            *)

\* the call c is a read of reg followed by the one write of reg, the byte
\* written being the byte read with the bits of `set` set and those of
\* `clear` cleared
C14_OneBit(c, reg, set, clear) ==
    /\ Len(Txs(c)) = 3
    /\ IsRead8(c, 1, reg)
    /\ Txs(c)[3].kind = "write"
    /\ Len(Txs(c)[3].bytes) = 2
    /\ Txs(c)[3].bytes[1] = reg
    /\ IsWith(Txs(c)[3].bytes[2], Txs(c)[2].bytes[1], set, clear)

C14_SingleBit ==
    /\ \A n \in 1..Len(calls) :
          /\ calls[n].op = "sleep" =>
                C14_OneBit(calls[n], PCA9685_MODE1, {MODE1_SLEEP}, {})
          /\ calls[n].op = "wakeup" =>
                C14_OneBit(calls[n], PCA9685_MODE1, {}, {MODE1_SLEEP})
          /\ calls[n].op = "setOutputMode" =>
                C14_OneBit(calls[n], PCA9685_MODE2,
                           IF calls[n].args[1] = 1 THEN {MODE2_OUTDRV} ELSE {},
                           IF calls[n].args[1] = 1 THEN {} ELSE {MODE2_OUTDRV})
          /\ (calls[n].op \in {"sleep", "wakeup", "setOutputMode"}
              /\ AllAcked(calls[n])) =>
                \* what the device holds when call n returned
                LET after == IF n < Len(calls) THEN calls[n + 1].regs0 ELSE regs
                    reg == Txs(calls[n])[3].bytes[1]
                IN  \A a \in RegAddrs \ {reg} : after[a] = calls[n].regs0[a]
    /\ \A n \in 1..(Len(calls) - 1) :
          (/\ calls[n].op = "sleep" /\ AllAcked(calls[n])
           /\ calls[n + 1].op = "wakeup" /\ AllAcked(calls[n + 1])
           /\ Bit(calls[n].regs0[PCA9685_MODE1], 4) = 0) =>
              LET after == IF n + 1 < Len(calls) THEN calls[n + 2].regs0 ELSE regs
              IN  after[PCA9685_MODE1] = calls[n].regs0[PCA9685_MODE1]

\* sleep() on a device whose MODE1 held RESTART | AI | ALLCALL (161) wrote
\* 177, and the wakeup() that followed wrote 161 back
C14_Witness ==
    /\ Len(calls) = 2
    /\ calls[1].op = "sleep" /\ AllAcked(calls[1])
    /\ calls[1].regs0[PCA9685_MODE1] = 161
    /\ calls[2].op = "wakeup" /\ AllAcked(calls[2])
    /\ calls[2].regs0[PCA9685_MODE1] = 177
    /\ regs[PCA9685_MODE1] = 161

----------------------------------------------------------------------------
(* C15: every blocking delay elapses before the next register write is      *)
(* issued.  reset's 10 ms delay follows its single MODE1 = RESTART write    *)
(* and precedes any further bus transaction, those that begin issues next   *)
(* included; sleep's 5 ms delay follows its MODE1 write; setExtClk's 5 ms   *)
(* delay lies after the PRESCALE write and before the final MODE1 write;    *)
(* setPWMFreq's 5 ms delay lies after the write that restores the MODE1     *)
(* value read and before the final MODE1 write.  The delays being blocking  *)
(* calls, a call's transactions and delays happen in the order recorded.    *)

C15_IsStep(e) == e.kind \in {"write", "read", "delay"}

\* what a step is: the read of a register (its address write "a" and its
\* read "r"), the write "w" of a register, or a delay "d" of some ms
C15_Mark(e) ==
    CASE e.kind = "delay" -> <<"d", e.bytes[1]>>
      [] e.kind = "read" -> <<"r", 0>>
      [] e.kind = "write" /\ Len(e.bytes) = 1 -> <<"a", e.bytes[1]>>
      [] OTHER -> <<"w", e.bytes[1]>>

\* the transactions and delays of a call, in order
C15_Steps(c) == SelectSeq(c.bus, C15_IsStep)
C15_Marks(c) == [k \in 1..Len(C15_Steps(c)) |-> C15_Mark(C15_Steps(c)[k])]

C15_ResetMarks == << <<"w", PCA9685_MODE1>>, <<"d", 10>> >>

C15_SleepMarks ==
    << <<"a", PCA9685_MODE1>>, <<"r", 0>>, <<"w", PCA9685_MODE1>>, <<"d", 5>> >>

C15_ExtClkMarks ==
    << <<"a", PCA9685_MODE1>>, <<"r", 0>>, <<"w", PCA9685_MODE1>>,
       <<"w", PCA9685_MODE1>>, <<"w", PCA9685_PRESCALE>>, <<"d", 5>>,
       <<"w", PCA9685_MODE1>> >>

C15_PWMFreqMarks ==
    << <<"a", PCA9685_MODE1>>, <<"r", 0>>, <<"w", PCA9685_MODE1>>,
       <<"w", PCA9685_PRESCALE>>, <<"w", PCA9685_MODE1>>, <<"d", 5>>,
       <<"w", PCA9685_MODE1>> >>

\* in the steps s of a setPWMFreq, the write before the delay restores the
\* byte read
C15_Restores(s) == s[5].bytes[2] = s[2].bytes[1]

C15_DelaysInPlace ==
    \A n \in 1..Len(calls) :
        LET c == calls[n]
            s == C15_Steps(c)
        IN  /\ c.op = "reset" =>
                  /\ C15_Marks(c) = C15_ResetMarks
                  /\ s[1].bytes[2] = MODE1_RESTART
            /\ c.op = "sleep" => C15_Marks(c) = C15_SleepMarks
            /\ c.op = "setExtClk" => C15_Marks(c) = C15_ExtClkMarks
            /\ c.op = "setPWMFreq" =>
                  /\ C15_Marks(c) = C15_PWMFreqMarks
                  /\ C15_Restores(s)
            /\ c.op = "begin" =>
                  /\ C15_Marks(c) =
                        C15_ResetMarks \o (IF c.args[1] # 0 THEN C15_ExtClkMarks
                                           ELSE C15_PWMFreqMarks)
                  /\ s[1].bytes[2] = MODE1_RESTART
                  /\ c.args[1] = 0 => C15_Restores(SubSeq(s, 3, Len(s)))

\* begin(0) on a device that answers: the 10 ms delay is its second step,
\* the 5 ms delay its eighth, between the last two MODE1 writes
C15_Witness ==
    /\ Len(calls) = 1
    /\ calls[1].op = "begin" /\ calls[1].args = <<0>>
    /\ AllAcked(calls[1])
    /\ Len(C15_Steps(calls[1])) = 9
    /\ C15_Marks(calls[1])[2] = <<"d", 10>>
    /\ C15_Marks(calls[1])[8] = <<"d", 5>>
    /\ C15_Marks(calls[1])[9] = <<"w", PCA9685_MODE1>>

----------------------------------------------------------------------------
(* C16: getPWM(ch), ch in 0..15, performs a single 1-byte register read at  *)
(* address 6 + 4*ch and returns only that byte; getPWM writes no register.  *)
(* On a device that answers, setPWM(ch, on, off) followed by getPWM(ch)     *)
(* returns on mod 256, the low byte of the ON value.                        *)

C16_GetPWMReadsOnLow ==
    \A n \in CallsOf("getPWM") :
        LET c == calls[n]
            reg == PCA9685_LED0_ON_L + 4 * c.args[1]
            after == IF n < Len(calls) THEN calls[n + 1].regs0 ELSE regs
        IN  /\ Len(Txs(c)) = 2
            /\ IsRead8(c, 1, reg)
            /\ RegWrites(c) = <<>>
            /\ after = c.regs0
            /\ c.ret = Txs(c)[2].bytes[1]
            /\ AllAcked(c) => c.ret = c.regs0[reg]
            /\ (/\ AllAcked(c)
                /\ n > 1
                /\ calls[n - 1].op = "setPWM"
                /\ AllAcked(calls[n - 1])
                /\ calls[n - 1].args[1] = c.args[1]) =>
                  c.ret = calls[n - 1].args[2] % 256

\* setPWM(15, 4094, 1) then getPWM(15): 254 is returned, neither 4094 nor 1
C16_Witness ==
    /\ Len(calls) = 2
    /\ calls[1].op = "setPWM" /\ calls[1].args = <<15, 4094, 1>>
    /\ AllAcked(calls[1])
    /\ calls[2].op = "getPWM" /\ calls[2].args = <<15>>
    /\ AllAcked(calls[2])
    /\ calls[2].ret = 254

----------------------------------------------------------------------------
(* C17: MODE1 holding the last byte written to it, once setPWMFreq or       *)
(* setExtClk has completed (hence after begin), the auto-increment bit AI   *)
(* of MODE1 is set and stays set across every later sequence of sleep,      *)
(* wakeup, setOutputMode, setPWMFreq, setExtClk, setPWM, setPin,            *)
(* writeMicroseconds, readPrescale and getPWM, so that every 5-byte write   *)
(* of setPWM in such a sequence is issued with AI set; only reset() clears  *)
(* it.                                                                      *)

C17_Establish == {"setPWMFreq", "setExtClk", "begin"}

C17_Later ==
    {"sleep", "wakeup", "setOutputMode", "setPWMFreq", "setExtClk", "setPWM",
     "setPin", "writeMicroseconds", "readPrescale", "getPWM"}

C17_AI(r) == Bit(r[PCA9685_MODE1], 5) = 1

\* the registers when call n returned
C17_After(n) == IF n < Len(calls) THEN calls[n + 1].regs0 ELSE regs

\* call k switched AI on and calls k+1 .. n are of the later kind, all on a
\* device that answers
C17_Since(k, n) ==
    /\ k <= n
    /\ calls[k].op \in C17_Establish
    /\ \A i \in (k + 1)..n : calls[i].op \in C17_Later
    /\ \A i \in k..n : AllAcked(calls[i])

C17_AIStaysSet ==
    /\ \A k \in 1..Len(calls), n \in 1..Len(calls) :
          C17_Since(k, n) =>
              /\ C17_AI(C17_After(n))
              /\ n > k =>
                    \A e \in 1..Len(calls[n].bus) :
                        LET ev == calls[n].bus[e] IN
                        \* a channel write finds AI set, and a MODE1 write
                        \* carries it
                        /\ (ev.kind = "write" /\ Len(ev.bytes) = 5) =>
                              C17_AI(calls[n].regs0)
                        /\ (ev.kind = "write" /\ Len(ev.bytes) = 2
                            /\ ev.bytes[1] = PCA9685_MODE1) =>
                              Bit(ev.bytes[2], 5) = 1
    /\ \A n \in 1..Len(calls) :
          AllAcked(calls[n]) =>
              /\ calls[n].op = "reset" => ~C17_AI(C17_After(n))
              /\ (C17_AI(calls[n].regs0) /\ ~C17_AI(C17_After(n))) =>
                    calls[n].op = "reset"

\* begin(0) on a device whose MODE1 held 17 (AI clear), then a setPWM: its
\* 5-byte write found AI set
C17_Witness ==
    /\ Len(calls) = 2
    /\ calls[1].op = "begin" /\ calls[1].regs0[PCA9685_MODE1] = 17
    /\ calls[2].op = "setPWM"
    /\ C17_Since(1, 2)
    /\ C17_AI(calls[2].regs0)
    /\ regs[PCA9685_LED0_ON_L + 4 * 15 + 1] = 1

----------------------------------------------------------------------------
(* C18: for every channel ch in 0..15, setPWM(ch, ..), and setPin and       *)
(* writeMicroseconds through it, changes only the four registers            *)
(* 6 + 4*ch .. 6 + 4*ch + 3 of that channel: the register blocks of         *)
(* distinct channels are disjoint, and MODE1, MODE2, PRESCALE and the other *)
(* 15 channels' registers are left unchanged.                               *)

C18_Block(ch) == (6 + 4 * ch)..(6 + 4 * ch + 3)

C18_ChannelOps == {"setPWM", "setPin", "writeMicroseconds"}

\* the registers a write transaction addresses
C18_Written(e) == e.bytes[1]..(e.bytes[1] + Len(e.bytes) - 2)

C18_OnlyOwnBlock ==
    /\ \A ch \in Channels :
          /\ C18_Block(ch) \subseteq RegAddrs
          /\ C18_Block(ch) \cap {PCA9685_MODE1, PCA9685_MODE2, PCA9685_PRESCALE} = {}
          /\ \A other \in Channels \ {ch} : C18_Block(ch) \cap C18_Block(other) = {}
    /\ \A n \in 1..Len(calls) :
          (calls[n].op \in C18_ChannelOps /\ calls[n].args[1] \in Channels) =>
              LET c == calls[n]
                  after == IF n < Len(calls) THEN calls[n + 1].regs0 ELSE regs
              IN  /\ \A a \in RegAddrs \ C18_Block(c.args[1]) : after[a] = c.regs0[a]
                  /\ \A k \in 1..Len(RegWrites(c)) :
                        C18_Written(RegWrites(c)[k]) = C18_Block(c.args[1])

\* setPWM(14, 256, 2048) on a device that answers: the four registers of
\* channel 14 hold 0, 1, 0, 8 and those of channels 13 and 15 are as before
C18_Witness ==
    /\ Len(calls) = 1
    /\ calls[1].op = "setPWM" /\ calls[1].args = <<14, 256, 2048>>
    /\ AllAcked(calls[1])
    /\ <<regs[62], regs[63], regs[64], regs[65]>> = <<0, 1, 0, 8>>
    /\ regs[61] = calls[1].regs0[61] /\ regs[61] # 0
    /\ regs[66] = calls[1].regs0[66] /\ regs[66] # 0

=============================================================================
